---- MODULE Spec2Model ----
(***************************************************************************)
(* CobolCompiler (mesonbuild/compilers/cobol.py): the GnuCOBOL toolchain   *)
(* adapter.  Three parts are modelled:                                     *)
(*   - sanity_check, step by step, for several toolchains probing          *)
(*     concurrently over one file system (specification Spec);             *)
(*   - compute_parameters_with_absolute_paths, on the caller's list        *)
(*     (specification SpecParams);                                         *)
(*   - get_dependency_gen_args / depfile_for_object (specification SpecDep)*)
(* A Python str is a sequence of one-character strings; the two fixed file *)
(* names of sanity_check are kept as one element each, they hold no '/'.   *)
(***************************************************************************)
EXTENDS Integers, Sequences, FiniteSets, TLC

VARIABLES
    \* ---- sanity_check ----
    files,          \* the file system: resolved path -> content
    own_files,      \* per toolchain: the file system had it probed alone
    is_cross,       \* self.is_cross of each toolchain (fixed at construction)
    pc,             \* position of each toolchain's sanity_check call
    work_dir,       \* the work_dir argument of the current call
    returncode,     \* pc.returncode of the compile step of the current call
    produced,       \* the binary this call's compile step produced
    result,         \* outcome of the latest call
    calls,          \* calls of sanity_check started so far
    log,            \* what the current call did: files touched, processes spawned
    \* ---- compute_parameters_with_absolute_paths ----
    parameter_list, \* the caller's list object
    build_dir,
    returned,       \* the value returned by the latest call
    given,          \* the list's tokens when the latest call was entered
    first_given,    \* the list's tokens when the first call was entered
    applied,        \* number of calls made
    \* ---- get_dependency_gen_args ----
    outtarget,
    outfile,
    dep_args,       \* the value returned
    dep_called

probe_vars == <<files, own_files, is_cross, pc, work_dir, returncode, produced,
                result, calls, log>>
param_vars == <<parameter_list, build_dir, returned, given, first_given, applied>>
dep_vars   == <<outtarget, outfile, dep_args, dep_called>>
vars       == <<probe_vars, param_vars, dep_vars>>

----------------------------------------------------------------------------
(* Bounds *)
MaxCalls  == 2      \* sanity_check calls made, over all toolchains
MaxArgs   == 2      \* tokens in a parameter list
MaxApply  == 2      \* calls of compute_parameters_with_absolute_paths
MaxTarget == 5      \* characters in an output target path

----------------------------------------------------------------------------
(* os.path (posixpath) on strings *)

StartsWith(s, p) == Len(s) >= Len(p) /\ SubSeq(s, 1, Len(p)) = p

\* s[:n] and s[n:]
Take(s, n) == SubSeq(s, 1, IF n < Len(s) THEN n ELSE Len(s))
Drop(s, n) == SubSeq(s, n + 1, Len(s))

\* a + '/' + b, which keeps a before an absolute b: used by the mutant of
\* AbsolutePath
join_concat(a, b) ==
    IF a = <<>> \/ a[Len(a)] = "/" THEN a \o b ELSE a \o <<"/">> \o b

\* os.path.join(a, b)
join(a, b) ==
    IF StartsWith(b, <<"/">>) THEN b
    ELSE IF a = <<>> \/ a[Len(a)] = "/" THEN a \o b
    ELSE a \o <<"/">> \o b

\* path.split('/')
RECURSIVE SplitSlash(_)
SplitSlash(s) ==
    IF \A i \in 1..Len(s) : s[i] # "/" THEN <<s>>
    ELSE LET k == CHOOSE i \in 1..Len(s) :
                    s[i] = "/" /\ \A j \in 1..(i - 1) : s[j] # "/"
         IN  <<SubSeq(s, 1, k - 1)>> \o SplitSlash(SubSeq(s, k + 1, Len(s)))

\* '/'.join(comps)
RECURSIVE JoinSlash(_)
JoinSlash(comps) ==
    IF comps = <<>> THEN <<>>
    ELSE IF Len(comps) = 1 THEN comps[1]
    ELSE comps[1] \o <<"/">> \o JoinSlash(Tail(comps))

\* the component loop of posixpath.normpath
RECURSIVE NormComps(_, _, _)
NormComps(comps, new_comps, initial_slashes) ==
    IF comps = <<>> THEN new_comps
    ELSE LET comp == Head(comps)
             rest == Tail(comps)
         IN  IF comp = <<>> \/ comp = <<".">>
             THEN NormComps(rest, new_comps, initial_slashes)
             ELSE IF \/ comp # <<".", ".">>
                     \/ (initial_slashes = 0 /\ new_comps = <<>>)
                     \/ (new_comps # <<>> /\ new_comps[Len(new_comps)] = <<".", ".">>)
             THEN NormComps(rest, Append(new_comps, comp), initial_slashes)
             ELSE IF new_comps # <<>>
             THEN NormComps(rest, SubSeq(new_comps, 1, Len(new_comps) - 1), initial_slashes)
             ELSE NormComps(rest, new_comps, initial_slashes)

\* os.path.normpath(path)
normpath(path) ==
    IF path = <<>> THEN <<".">>
    ELSE LET initial_slashes ==
                 IF ~StartsWith(path, <<"/">>) THEN 0
                 ELSE IF StartsWith(path, <<"/", "/">>) /\ ~StartsWith(path, <<"/", "/", "/">>)
                 THEN 2 ELSE 1
             body == JoinSlash(NormComps(SplitSlash(path), <<>>, initial_slashes))
             out  == [i \in 1..initial_slashes |-> "/"] \o body
         IN  IF out = <<>> THEN <<".">> ELSE out

----------------------------------------------------------------------------
(* sanity_check *)

\* the toolchains configured, one CobolCompiler instance each
Probes == {"cobc_a", "cobc_b"}

\* the exit codes a spawned process may end with
ExitCodes == {0, 1, 2}

\* the current directory of the calling process
Cwd == <<"/">>

\* work_dir arguments a caller may pass: absolute and relative
WorkDirs == { <<"/", "a">>, <<"a">>, <<"a", "/", "a">>, <<"/", "b">> }

src == <<"coboltest.cob">>
source_name(wd) == join(wd, src)
output_name(wd) == join(wd, <<"coboltest">>)

\* how the operating system resolves path p for a process whose current
\* directory is cwd
Resolve(cwd, p) == normpath(join(cwd, p))

\* the current directory of the compiler process: Popen(..., cwd=work_dir)
ChildCwd(wd) == Resolve(Cwd, wd)

\* open(source_name, 'w') in the calling process
SourcePath(wd) == Resolve(Cwd, source_name(wd))
\* the last argument of the compile command, read by the compiler
CompileInput(wd) == Resolve(ChildCwd(wd), src)
\* the '-o' argument of the compile command, written by the compiler
CompileOutput(wd) == Resolve(ChildCwd(wd), output_name(wd))
\* subprocess.call(output_name) in the calling process
ExecPath(wd) == Resolve(Cwd, output_name(wd))

\* pc.returncode != 0, testing for exit code 1 only: the mutant of CompileFailed
CompileFailed_only1(code) == code = 1

\* pc.returncode != 0
CompileFailed(code) == code # 0

\* if self.is_cross: return, never taken: the mutant of SkipExecute
SkipExecute_never(t) == FALSE

\* if self.is_cross: return
SkipExecute(t) == is_cross[t]

\* subprocess.call(output_name) != 0
RunFailed(code) == code # 0

Success == [outcome |-> "success"]
\* EnvironmentException('Cobol compiler %s cannot compile programs.')
ToolchainUnusable(t) == [outcome |-> "ToolchainUnusable", toolchain |-> t]
\* EnvironmentException('Executables created by Cobol compiler %s are not runnable.')
ExecutableUnrunnable(t) == [outcome |-> "ExecutableUnrunnable", toolchain |-> t]
\* subprocess.call raises FileNotFoundError: there is no file at the path
NotFound == [outcome |-> "FileNotFoundError"]
NoResult == [outcome |-> "none"]

NoBinary == [kind |-> "none"]
SourceFile == [kind |-> "source"]
\* a binary written by the compile step of toolchain t's n-th call, made in
\* working directory dir; it exits with rc when executed
Binary(t, n, dir, rc) == [kind |-> "binary", by |-> t, call |-> n, dir |-> dir, exit |-> rc]

EmptyLog == [src_writes |-> 0, spawns |-> 0, execs |-> 0,
             reads |-> {}, writes |-> {}, ran |-> NoBinary, alone |-> NoResult]

WriteFile(fs, p, c) == [q \in DOMAIN fs \cup {p} |-> IF q = p THEN c ELSE fs[q]]

\* what subprocess.call(output_name) gives on file system fs
RunOutcome(fs, t) ==
    IF ExecPath(work_dir[t]) \notin DOMAIN fs THEN NotFound
    ELSE IF RunFailed(fs[ExecPath(work_dir[t])].exit) THEN ExecutableUnrunnable(t)
    ELSE Success

InitProbe ==
    /\ files = << >>
    /\ own_files = [t \in Probes |-> << >>]
    /\ is_cross \in [Probes -> BOOLEAN]
    /\ pc = [t \in Probes |-> "idle"]
    /\ work_dir = [t \in Probes |-> <<"/", "a">>]
    /\ returncode = [t \in Probes |-> 0]
    /\ produced = [t \in Probes |-> NoBinary]
    /\ result = [t \in Probes |-> NoResult]
    /\ calls = [t \in Probes |-> 0]
    /\ log = [t \in Probes |-> EmptyLog]

\* the sum of f over the toolchains
RECURSIVE Total(_, _)
Total(f, S) ==
    IF S = {} THEN 0 ELSE LET t == CHOOSE x \in S : TRUE IN f[t] + Total(f, S \ {t})

\* the orchestrator gives probes that run at the same time a working
\* directory each
OwnDirectory(t, wd) ==
    \A u \in Probes \ {t} :
        pc[u] \in {"compile", "execute"} => ChildCwd(work_dir[u]) # ChildCwd(wd)

\* lines 90-102: sanity_check is entered and the source file is written
WriteSource(t, wd) ==
    /\ pc[t] \in {"idle", "done"}
    /\ Total(calls, Probes) < MaxCalls
    /\ OwnDirectory(t, wd)
    /\ work_dir' = [work_dir EXCEPT ![t] = wd]
    /\ calls' = [calls EXCEPT ![t] = @ + 1]
    /\ LET p == SourcePath(wd)
       IN  /\ files' = WriteFile(files, p, SourceFile)
           /\ own_files' = [own_files EXCEPT ![t] = WriteFile(@, p, SourceFile)]
           /\ log' = [log EXCEPT ![t] =
                        [EmptyLog EXCEPT !.src_writes = 1, !.writes = {p}]]
    /\ returncode' = [returncode EXCEPT ![t] = 0]
    /\ produced' = [produced EXCEPT ![t] = NoBinary]
    /\ result' = [result EXCEPT ![t] = NoResult]
    /\ pc' = [pc EXCEPT ![t] = "compile"]
    /\ UNCHANGED <<is_cross, param_vars, dep_vars>>

\* lines 103-109: the compiler runs in work_dir and exits with code.  A
\* compiler that exits 0 has written its '-o' file, a binary that will exit
\* with run_code when executed; one that fails leaves the files as they are.
Compile(t, code, run_code) ==
    /\ pc[t] = "compile"
    /\ CompileInput(work_dir[t]) \in DOMAIN files
    /\ code # 0 => run_code = 0
    /\ returncode' = [returncode EXCEPT ![t] = code]
    /\ LET bin == Binary(t, calls[t], ChildCwd(work_dir[t]), run_code)
           wrote == IF code = 0 THEN {CompileOutput(work_dir[t])} ELSE {}
       IN  /\ files' = IF code = 0 THEN WriteFile(files, CompileOutput(work_dir[t]), bin) ELSE files
           /\ own_files' = IF code = 0
                           THEN [own_files EXCEPT ![t] = WriteFile(@, CompileOutput(work_dir[t]), bin)]
                           ELSE own_files
           /\ produced' = [produced EXCEPT ![t] = IF code = 0 THEN bin ELSE NoBinary]
           /\ log' = [log EXCEPT ![t].spawns = @ + 1,
                                 ![t].reads = @ \cup {CompileInput(work_dir[t])},
                                 ![t].writes = @ \cup wrote,
                                 ![t].alone = IF CompileFailed(code) THEN ToolchainUnusable(t)
                                              ELSE IF SkipExecute(t) THEN Success
                                              ELSE NoResult]
    /\ IF CompileFailed(code)
       THEN /\ result' = [result EXCEPT ![t] = ToolchainUnusable(t)]
            /\ pc' = [pc EXCEPT ![t] = "done"]
       ELSE IF SkipExecute(t)
       THEN /\ result' = [result EXCEPT ![t] = Success]
            /\ pc' = [pc EXCEPT ![t] = "done"]
       ELSE /\ result' = result
            /\ pc' = [pc EXCEPT ![t] = "execute"]
    /\ UNCHANGED <<is_cross, work_dir, calls, param_vars, dep_vars>>

\* lines 110-111: the file at output_name is executed
Execute(t) ==
    /\ pc[t] = "execute"
    /\ result' = [result EXCEPT ![t] = RunOutcome(files, t)]
    /\ log' = [log EXCEPT ![t].execs = @ + 1,
                          ![t].reads = @ \cup {ExecPath(work_dir[t])},
                          ![t].ran = IF ExecPath(work_dir[t]) \in DOMAIN files
                                     THEN files[ExecPath(work_dir[t])] ELSE NoBinary,
                          ![t].alone = RunOutcome(own_files[t], t)]
    /\ pc' = [pc EXCEPT ![t] = "done"]
    /\ UNCHANGED <<files, own_files, is_cross, work_dir, returncode, produced, calls,
                   param_vars, dep_vars>>

----------------------------------------------------------------------------
(* compute_parameters_with_absolute_paths *)

\* build_dir + '/' + suffix in place of os.path.join: the mutant of AbsolutePath
AbsolutePath_concat(bd, suffix) == normpath(join_concat(bd, suffix))

\* os.path.normpath(os.path.join(build_dir, i[2:]))
AbsolutePath(bd, suffix) == normpath(join(bd, suffix))

IsPathToken(i) == Take(i, 2) = <<"-", "I">> \/ Take(i, 2) = <<"-", "L">>

\* the rewritten token without its i[:2] prefix: the mutant of NormalizeToken
NormalizeToken_bare(i, bd) ==
    IF IsPathToken(i) THEN AbsolutePath(bd, Drop(i, 2)) ELSE i

\* the body of the loop: the new value of parameter_list[idx]
NormalizeToken(i, bd) ==
    IF IsPathToken(i) THEN Take(i, 2) \o AbsolutePath(bd, Drop(i, 2)) ELSE i

\* the list object after the loop
compute_parameters_with_absolute_paths(pl, bd) ==
    [idx \in 1..Len(pl) |-> NormalizeToken(pl[idx], bd)]

Prefixes == { <<"-", "I">>, <<"-", "L">>, <<"-", "l">>, <<>> }
Suffixes == { <<>>, <<"a">>, <<"/">>, <<"/", "a">>, <<"/", "/", "a">>,
              <<".", ".">>, <<"a", "/", ".", ".">>, <<"/", ".", ".">>,
              <<"/", "a", "/", ".", "/", "b">>, <<"/", "a", "/", ".", ".", "/", "b">>,
              <<"/", "a", "/">>, <<"-">> }
Tokens == { p \o x : p \in Prefixes, x \in Suffixes }
BuildDirs == { <<"/", "b">>, <<"b", "/">>, <<>> }

InitParams ==
    /\ parameter_list \in UNION { [1..n -> Tokens] : n \in 0..MaxArgs }
    /\ build_dir \in BuildDirs
    /\ returned = <<>>
    /\ given = <<>>
    /\ first_given = <<>>
    /\ applied = 0

\* one call on the caller's list; the list is rewritten in place and the
\* same object is returned
ComputeParameters ==
    /\ applied < MaxApply
    /\ given' = parameter_list
    /\ first_given' = IF applied = 0 THEN parameter_list ELSE first_given
    /\ parameter_list' = compute_parameters_with_absolute_paths(parameter_list, build_dir)
    /\ returned' = parameter_list'
    /\ applied' = applied + 1
    /\ UNCHANGED build_dir

----------------------------------------------------------------------------
(* get_dependency_gen_args *)

\* s.rfind(c), one-based: 0 when c is not in s
RFind(s, c) ==
    IF \E i \in 1..Len(s) : s[i] = c
    THEN CHOOSE i \in 1..Len(s) : s[i] = c /\ \A j \in (i + 1)..Len(s) : s[j] # c
    ELSE 0

\* splitext that cuts at the last dot of the whole path: the mutant
splitext_root_anydot(p) ==
    IF RFind(p, ".") > 0 THEN SubSeq(p, 1, RFind(p, ".") - 1) ELSE p

\* os.path.splitext(p)[0]
splitext_root(p) ==
    LET sepIndex == RFind(p, "/")
        dotIndex == RFind(p, ".")
    IN  IF /\ dotIndex > sepIndex
           /\ \E k \in (sepIndex + 1)..(dotIndex - 1) : p[k] # "."
        THEN SubSeq(p, 1, dotIndex - 1)
        ELSE p

get_depfile_suffix == <<"d">>

depfile_for_object(objfile) == splitext_root(objfile) \o <<".">> \o get_depfile_suffix

get_dependency_gen_args(target, file) == << <<"-", "M", "T">>, depfile_for_object(target) >>

TargetChars == {"/", ".", "f", "o"}
Targets == UNION { [1..n -> TargetChars] : n \in 0..MaxTarget }
OutFiles == { <<"x">>, <<"y", ".", "d">> }

InitDep ==
    /\ outtarget \in Targets
    /\ outfile \in OutFiles
    /\ dep_args = <<>>
    /\ dep_called = FALSE

DependencyGenArgs ==
    /\ ~dep_called
    /\ dep_args' = get_dependency_gen_args(outtarget, outfile)
    /\ dep_called' = TRUE
    /\ UNCHANGED <<outtarget, outfile>>

----------------------------------------------------------------------------
(* Specifications *)

IdleProbe ==
    /\ files = << >>
    /\ own_files = [t \in Probes |-> << >>]
    /\ is_cross = [t \in Probes |-> FALSE]
    /\ pc = [t \in Probes |-> "idle"]
    /\ work_dir = [t \in Probes |-> <<"/", "a">>]
    /\ returncode = [t \in Probes |-> 0]
    /\ produced = [t \in Probes |-> NoBinary]
    /\ result = [t \in Probes |-> NoResult]
    /\ calls = [t \in Probes |-> 0]
    /\ log = [t \in Probes |-> EmptyLog]

IdleParams ==
    /\ parameter_list = <<>>
    /\ build_dir = <<>>
    /\ returned = <<>>
    /\ given = <<>>
    /\ first_given = <<>>
    /\ applied = 0

IdleDep ==
    /\ outtarget = <<>>
    /\ outfile = <<>>
    /\ dep_args = <<>>
    /\ dep_called = FALSE

Init == InitProbe /\ IdleParams /\ IdleDep
Next ==
    \/ \E t \in Probes, wd \in WorkDirs : WriteSource(t, wd)
    \/ \E t \in Probes, code \in ExitCodes, run_code \in ExitCodes : Compile(t, code, run_code)
    \/ \E t \in Probes : Execute(t)
Spec == Init /\ [][Next]_vars

ParamsInit == InitParams /\ IdleProbe /\ IdleDep
ParamsNext == ComputeParameters /\ UNCHANGED <<probe_vars, dep_vars>>
SpecParams == ParamsInit /\ [][ParamsNext]_vars

DepInit == InitDep /\ IdleProbe /\ IdleParams
DepNext == DependencyGenArgs /\ UNCHANGED <<probe_vars, param_vars>>
SpecDep == DepInit /\ [][DepNext]_vars

----------------------------------------------------------------------------
(* Properties of sanity_check, under Spec *)

Finished(t) == pc[t] = "done"

\* the result the exit codes of this call alone decide
Decided(t) ==
    IF returncode[t] # 0 THEN ToolchainUnusable(t)
    ELSE IF is_cross[t] THEN Success
    ELSE IF produced[t].exit # 0 THEN ExecutableUnrunnable(t)
    ELSE Success

\* C1: once the compile step has exited non-zero (any non-zero code, cross
\* or not) the call has failed with ToolchainUnusable naming its toolchain,
\* and the execute step was not attempted in that call.
C1_CompileFailureIsToolchainUnusable ==
    \A t \in Probes :
        (pc[t] \in {"execute", "done"} /\ returncode[t] # 0) =>
            /\ Finished(t)
            /\ result[t] = ToolchainUnusable(t)
            /\ log[t].execs = 0

C1_Witness ==
    \E t, u \in Probes :
        /\ Finished(t) /\ returncode[t] = 2 /\ ~is_cross[t]
        /\ result[t] = ToolchainUnusable(t) /\ log[t].execs = 0
        /\ Finished(u) /\ returncode[u] = 1 /\ is_cross[u]
        /\ result[u] = ToolchainUnusable(u)

\* C2: a finished call whose compile step exited 0 on a non-cross toolchain
\* has executed the binary that compile step produced, exactly once, and its
\* result is success when that binary exits 0 and ExecutableUnrunnable
\* (naming the toolchain) otherwise.
C2_ProducedBinaryDecides ==
    \A t \in Probes :
        (Finished(t) /\ returncode[t] = 0 /\ ~is_cross[t]) =>
            /\ log[t].execs = 1
            /\ log[t].ran = produced[t]
            /\ result[t] = IF produced[t].exit = 0 THEN Success
                           ELSE ExecutableUnrunnable(t)

\* C3: once the compile step has exited 0 on a cross toolchain the call has
\* succeeded and the produced binary was not executed, whatever its exit
\* code would be.
C3_CrossSkipsExecute ==
    \A t \in Probes :
        (pc[t] \in {"execute", "done"} /\ returncode[t] = 0 /\ is_cross[t]) =>
            /\ Finished(t)
            /\ result[t] = Success
            /\ log[t].execs = 0
            /\ log[t].ran = NoBinary

C3_Witness ==
    \E t \in Probes :
        /\ Finished(t) /\ returncode[t] = 0 /\ is_cross[t]
        /\ produced[t].kind = "binary" /\ produced[t].exit = 2
        /\ result[t] = Success /\ log[t].execs = 0

\* C8: two toolchains probing in different working directories touch no
\* common file that either writes, and a finished probe's result is the one
\* it has when it probes alone with the same exit codes.
C8_ProbesIndependent ==
    \A t, u \in Probes :
        (t # u /\ calls[t] > 0 /\ calls[u] > 0 /\ ChildCwd(work_dir[t]) # ChildCwd(work_dir[u])) =>
            /\ (log[t].reads \cup log[t].writes) \cap log[u].writes = {}
            /\ Finished(t) => result[t] = log[t].alone

\* C9: every finished call wrote the source file once and spawned the
\* compiler once; and when the file it executed was produced by a call of the
\* same toolchain in the same working directory, this one or an earlier one,
\* the result is the one this call's own exit codes and the cross flag decide.
C9_RepeatedCallsIndependent ==
    \A t \in Probes :
        Finished(t) =>
            /\ log[t].src_writes = 1
            /\ log[t].spawns = 1
            /\ (/\ log[t].ran.kind = "binary"
                /\ log[t].ran.by = t
                /\ log[t].ran.dir = ChildCwd(work_dir[t])) => result[t] = Decided(t)

\* C10: in a call that reached the execute step, the path the execute step
\* runs (resolved from the caller's directory) is the path the compile step
\* was given with '-o' (resolved from work_dir), and that file lies directly
\* in work_dir.
C10_ExecutesCompileOutput ==
    \A t \in Probes :
        (Finished(t) /\ log[t].execs = 1) =>
            /\ ExecPath(work_dir[t]) = CompileOutput(work_dir[t])
            /\ CompileOutput(work_dir[t]) = Resolve(ChildCwd(work_dir[t]), <<"coboltest">>)

----------------------------------------------------------------------------
(* Properties of compute_parameters_with_absolute_paths, under SpecParams *)

BeginsWithIorL(tok) == StartsWith(tok, <<"-", "I">>) \/ StartsWith(tok, <<"-", "L">>)

\* C4: the returned list has the length of the list given; a token that
\* begins with neither -I nor -L is returned as given at its position, and a
\* token that begins with -I or -L keeps those two characters at its position.
C4_FramePreserved ==
    applied > 0 =>
        /\ Len(returned) = Len(given)
        /\ \A idx \in 1..Len(given) :
              IF BeginsWithIorL(given[idx])
              THEN StartsWith(returned[idx], SubSeq(given[idx], 1, 2))
              ELSE returned[idx] = given[idx]

C4_Witness ==
    /\ applied = 1
    /\ Len(given) = 2
    /\ given[1] = <<"-", "L", "a", "/", ".", ".">>
    /\ given[2] = <<"-", "l", "/", "a", "/", ".", "/", "b">>
    /\ returned[1] # given[1]
    /\ returned[2] = given[2]

\* C5: after a call the caller's list holds the tokens it held when the call
\* was entered.
C5_CallerListUntouched ==
    applied > 0 => parameter_list = given

AllAbsolute(pl) ==
    \A idx \in 1..Len(pl) :
        BeginsWithIorL(pl[idx]) => StartsWith(SubSeq(pl[idx], 3, Len(pl[idx])), <<"/">>)

\* C6: on a list whose -I/-L tokens carry absolute paths, a second call with
\* the same build_dir returns the tokens the first call returned.
C6_Idempotent ==
    (applied >= 2 /\ AllAbsolute(first_given)) => returned = given

C6_Witness ==
    /\ applied = 2
    /\ AllAbsolute(first_given)
    /\ Len(first_given) = 2
    /\ first_given[1] = <<"-", "I", "/", "a", "/", ".", ".", "/", "b">>
    /\ first_given[2] = <<"-", "L", "/", "/", "a">>
    /\ build_dir = <<"/", "b">>
    /\ given # first_given
    /\ returned = given

----------------------------------------------------------------------------
(* Properties of get_dependency_gen_args, under SpecDep *)

\* the number of characters of p up to and including its last '/'
DirLen(p) ==
    CHOOSE k \in 0..Len(p) :
        (k = 0 \/ p[k] = "/") /\ \A j \in (k + 1)..Len(p) : p[j] # "/"
DirOf(p)  == SubSeq(p, 1, DirLen(p))
NameOf(p) == SubSeq(p, DirLen(p) + 1, Len(p))

\* a file name has an extension when one of its dots follows a character
\* that is not a dot; the extension starts at the last dot
HasExtension(name) ==
    \E k \in 1..Len(name) : name[k] = "." /\ \E j \in 1..(k - 1) : name[j] # "."
BaseOf(name) ==
    IF HasExtension(name)
    THEN SubSeq(name, 1, (CHOOSE k \in 1..Len(name) :
                            name[k] = "." /\ \A j \in (k + 1)..Len(name) : name[j] # ".") - 1)
    ELSE name

\* C7: the value returned is ['-MT', d], d being the directory part and the
\* base name of outtarget followed by '.d' ('foo.o' gives 'foo.d'); outfile
\* plays no part.
C7_DepfileKeepsDirAndBase ==
    dep_called =>
        /\ dep_args = << <<"-", "M", "T">>,
                         DirOf(outtarget) \o BaseOf(NameOf(outtarget)) \o <<".", "d">> >>
        /\ outtarget = <<"f", "o", "o", ".", "o">> =>
               dep_args[2] = <<"f", "o", "o", ".", "d">>

C7_Witness ==
    /\ dep_called
    /\ outtarget = <<"o", ".", "o", "/", "f">>
    /\ outfile = <<"y", ".", "d">>
    /\ dep_args = << <<"-", "M", "T">>, <<"o", ".", "o", "/", "f", ".", "d">> >>

====
